---------------------------- MODULE Spec2Model ----------------------------
(***************************************************************************)
(* A model of TransfersConsumer (src/lib/Transfers/TransfersConsumer.cpp): *)
(* the wallet-side consumer that scans blocks and pool transactions for    *)
(* outputs owned by the subscribed accounts.                               *)
(*                                                                         *)
(* Keys are symbolic.  The one-time key H(v*R, i)*G + S is the tuple       *)
(* <<<<R, v>>, i, S>>; two keys are equal exactly when the tuples are.     *)
(* Hashes, spend keys and error codes are strings.  Indices are 0-based as *)
(* in the source; a TLA+ sequence holds index i at position i + 1.         *)
(***************************************************************************)
EXTENDS Integers, Sequences, FiniteSets, TLC

(***************************************************************************)
(* Bounds of the model.                                                    *)
(***************************************************************************)
MaxWorkers == 2
MaxCalls == 4
MaxStart == 2

(***************************************************************************)
(* Program constants.  The sentinels are the largest value of their type   *)
(* in the source; here they are the largest integer of the model, above    *)
(* every height, index and timestamp it uses.                              *)
(***************************************************************************)
WALLET_UNCONFIRMED_TRANSACTION_HEIGHT == 2147483647
UNCONFIRMED_TRANSACTION_GLOBAL_OUTPUT_INDEX == 2147483647
UINT64_MAX == 2147483647
DEFAULT_WORKERS == 2

NoError == "ok"
ArgumentOutOfDomain == "argument_out_of_domain"
OperationCanceled == "operation_canceled"
NodeErrors == {"E1", "E2"}

NULL_PUBLIC_KEY == "NULL"
ViewSecret == "v"
OtherViewSecret == "w"
SpendKeys == {"A", "B", "C"}
NoSpendKey == "none"

(***************************************************************************)
(* Crypto primitives (symbolic).                                           *)
(***************************************************************************)
generate_key_derivation(txPublicKey, viewSecretKey) ==
    [ok |-> txPublicKey # "Rbad", derivation |-> <<txPublicKey, viewSecretKey>>]

derive_public_key(derivation, index, spendKey) == <<derivation, index, spendKey>>

underive_public_key(derivation, index, key) ==
    IF key[1] = derivation /\ key[2] = index THEN key[3] ELSE NoSpendKey

\* The stealth key of spend key s in a transaction with public key r, derived
\* for index i under the consumer's view secret.
StealthKey(r, i, s) == derive_public_key(<<r, ViewSecret>>, i, s)

(***************************************************************************)
(* Transactions (ITransactionReader).                                      *)
(***************************************************************************)
KeyOut(k) == [type |-> "Key", keys |-> <<k>>]
MultisigOut(ks) == [type |-> "Multisignature", keys |-> ks]
OtherOut == [type |-> "Other", keys |-> <<>>]

MkTx(h, r, outs) == [hash |-> h, pubKey |-> r, outputs |-> outs]

getOutputCount(tx) == Len(tx.outputs)
getOutput(tx, idx) == tx.outputs[idx + 1]
getOutputType(tx, idx) == tx.outputs[idx + 1].type

(***************************************************************************)
(* Sequence helpers.                                                       *)
(***************************************************************************)
Range(s) == {s[i] : i \in 1..Len(s)}

RECURSIVE SeqOfSet(_, _)
\* The elements of set S in the order sequence `order` lists them.
SeqOfSet(S, order) ==
    IF order = <<>> THEN <<>>
    ELSE IF Head(order) \in S THEN <<Head(order)>> \o SeqOfSet(S, Tail(order))
    ELSE SeqOfSet(S, Tail(order))

Min(a, b) == IF a < b THEN a ELSE b

(***************************************************************************)
(* findMyOutputs: the output scanner.  ScanHits lists the hits             *)
(* <<spendKey, outputIndex>> in the order checkOutputKey records them.     *)
(***************************************************************************)
checkOutputKey(derivation, key, keyIndex, outputIndex, spendKeys) ==
    LET spendKey == underive_public_key(derivation, keyIndex, key)
    IN  IF spendKey \in spendKeys THEN <<<<spendKey, outputIndex>>>> ELSE <<>>

RECURSIVE ScanKeys(_, _, _, _, _)
\* The loop over the keys of a multisignature output: every key is checked
\* with the output index.
ScanKeys(derivation, keys, j, idx, spendKeys) ==
    IF j > Len(keys) THEN <<>>
    ELSE checkOutputKey(derivation, keys[j], idx, idx, spendKeys)
         \o ScanKeys(derivation, keys, j + 1, idx, spendKeys)

RECURSIVE ScanHits(_, _, _, _, _)
ScanHits(tx, derivation, spendKeys, idx, keyIndex) ==
    IF idx >= getOutputCount(tx) THEN <<>>
    ELSE LET out == getOutput(tx, idx)
         IN  IF out.type = "Key"
             THEN checkOutputKey(derivation, out.keys[1], keyIndex, idx, spendKeys)
                  \o ScanHits(tx, derivation, spendKeys, idx + 1, keyIndex + 1)
             ELSE IF out.type = "Multisignature"
             THEN ScanKeys(derivation, out.keys, 1, idx, spendKeys)
                  \o ScanHits(tx, derivation, spendKeys, idx + 1,
                              keyIndex + Len(out.keys))
             ELSE ScanHits(tx, derivation, spendKeys, idx + 1, keyIndex)

RECURSIVE HitsOf(_, _)
HitsOf(hits, spendKey) ==
    IF hits = <<>> THEN <<>>
    ELSE IF Head(hits)[1] = spendKey
         THEN <<Head(hits)[2]>> \o HitsOf(Tail(hits), spendKey)
         ELSE HitsOf(Tail(hits), spendKey)

\* The map spendKey -> [outputIndex]; its domain holds the keys with a hit.
findMyOutputs(tx, viewSecretKey, spendKeys) ==
    LET d == generate_key_derivation(tx.pubKey, viewSecretKey)
        hits == IF d.ok THEN ScanHits(tx, d.derivation, spendKeys, 0, 0) ELSE <<>>
        owners == {hits[n][1] : n \in 1..Len(hits)}
    IN  [k \in owners |-> HitsOf(hits, k)]

(***************************************************************************)
(* The seen-keys registry: transactions_hash_seen and public_keys_seen.    *)
(***************************************************************************)
EmptySeen == [hashes |-> {}, keys |-> {}]

addPublicKeysSeen(seen, transactionHash, outputKey) ==
    [hashes |-> seen.hashes \cup {transactionHash},
     keys |-> seen.keys \cup {outputKey}]

(***************************************************************************)
(* createTransfers: the transfer builder.                                  *)
(***************************************************************************)
AccountKeys(spendKey) == [spendPublicKey |-> spendKey, viewSecretKey |-> ViewSecret]

\* The ephemeral public key generate_key_image_helper recomputes.
generate_key_image_helper(account, txPubKey, idx) ==
    derive_public_key(generate_key_derivation(txPubKey, account.viewSecretKey).derivation,
                      idx, account.spendPublicKey)

RECURSIVE StageKeys(_, _, _, _)
\* The duplicate-key defence over the keys of one output of a transaction not
\* yet seen: a key of public_keys_seen or of temp_keys ends the call,
\* any other key is staged in temp_keys.
StageKeys(keys, j, temp, keysSeen) ==
    IF j > Len(keys) THEN [dup |-> FALSE, temp |-> temp]
    ELSE IF keys[j] \in keysSeen \/ keys[j] \in Range(temp)
         THEN [dup |-> TRUE, temp |-> temp]
         ELSE StageKeys(keys, j + 1, Append(temp, keys[j]), keysSeen)

TransferInfo(account, blockInfo, tx, idx, globalIdxs) ==
    LET out == getOutput(tx, idx)
    IN  [type |-> out.type,
         transactionPublicKey |-> tx.pubKey,
         outputInTransaction |-> idx,
         globalOutputIndex |->
             IF blockInfo.height = WALLET_UNCONFIRMED_TRANSACTION_HEIGHT
             THEN UNCONFIRMED_TRANSACTION_GLOBAL_OUTPUT_INDEX
             ELSE globalIdxs[idx + 1],
         outputKey |-> IF out.type = "Key" THEN <<out.keys[1]>> ELSE <<>>,
         keyImage |-> IF out.type = "Key"
                      THEN <<generate_key_image_helper(account, tx.pubKey, idx)>>
                      ELSE <<>>]

RECURSIVE BuildTransfers(_, _, _, _, _, _, _)
\* The loop of createTransfers from position n of `outputs`, with the
\* temp_keys, the transfers and the assertion outcome so far in st.
BuildTransfers(account, blockInfo, tx, outputs, globalIdxs, seen, st) ==
    IF st.n > Len(outputs)
    THEN [ec |-> NoError, dropped |-> FALSE, temp |-> st.temp,
          transfers |-> st.transfers, assertOk |-> st.assertOk]
    ELSE LET idx == outputs[st.n]
         IN  IF idx >= getOutputCount(tx)
             THEN [ec |-> ArgumentOutOfDomain, dropped |-> FALSE, temp |-> st.temp,
                   transfers |-> st.transfers, assertOk |-> st.assertOk]
             ELSE LET out == getOutput(tx, idx)
                      ok == st.assertOk
                            /\ (out.type = "Key" =>
                                  out.keys[1] = generate_key_image_helper(account, tx.pubKey, idx))
                      staged == IF tx.hash \in seen.hashes
                                THEN [dup |-> FALSE, temp |-> st.temp]
                                ELSE StageKeys(out.keys, 1, st.temp, seen.keys)
                  IN  IF out.type \notin {"Key", "Multisignature"}
                      THEN BuildTransfers(account, blockInfo, tx, outputs, globalIdxs, seen,
                                          [st EXCEPT !.n = st.n + 1])
                      ELSE IF staged.dup
                      THEN [ec |-> NoError, dropped |-> TRUE, temp |-> staged.temp,
                            transfers |-> st.transfers, assertOk |-> ok]
                      ELSE BuildTransfers(account, blockInfo, tx, outputs, globalIdxs, seen,
                               [n |-> st.n + 1, temp |-> staged.temp,
                                transfers |-> Append(st.transfers,
                                    TransferInfo(account, blockInfo, tx, idx, globalIdxs)),
                                assertOk |-> ok])

\* The registry after a call that ran to its end: the merge of lines 550-555.
MergeSeen(seen, txHash, temp) ==
    [hashes |-> seen.hashes \cup {txHash}, keys |-> seen.keys \cup Range(temp)]

\* A variant that merges the staged keys and the hash whatever the outcome.
createTransfers_MergesOnDrop(account, blockInfo, tx, outputs, globalIdxs, seen) ==
    LET r == BuildTransfers(account, blockInfo, tx, outputs, globalIdxs, seen,
                            [n |-> 1, temp |-> <<>>, transfers |-> <<>>, assertOk |-> TRUE])
    IN  [ec |-> r.ec, dropped |-> r.dropped, transfers |-> r.transfers,
         assertOk |-> r.assertOk, seen |-> MergeSeen(seen, tx.hash, r.temp)]

createTransfers(account, blockInfo, tx, outputs, globalIdxs, seen) ==
    LET r == BuildTransfers(account, blockInfo, tx, outputs, globalIdxs, seen,
                            [n |-> 1, temp |-> <<>>, transfers |-> <<>>, assertOk |-> TRUE])
    IN  [ec |-> r.ec, dropped |-> r.dropped, transfers |-> r.transfers,
         assertOk |-> r.assertOk,
         seen |-> IF r.ec = NoError /\ ~r.dropped
                  THEN MergeSeen(seen, tx.hash, r.temp) ELSE seen]

(***************************************************************************)
(* The node.  A behaviour maps every transaction hash to the outcome of    *)
(* getTransactionOutsGlobalIndices for it: success, a callback carrying an *)
(* error code, or a raise (a std::system_error with a code, or another     *)
(* exception).                                                             *)
(***************************************************************************)
NodeOk == [kind |-> "ok", code |-> NoError]
NodeError(e) == [kind |-> "error", code |-> e]
NodeSystemError(e) == [kind |-> "system_error", code |-> e]
NodeException == [kind |-> "exception", code |-> OperationCanceled]

\* The global indices the node reports for the outputs of a transaction.
GlobalIndicesOf(tx, txNo) == [i \in 1..Len(tx.outputs) |-> 10 * txNo + (i - 1)]

\* getGlobalIndices: the callback's error code and the indices; `raised`
\* tells a raise from a returned code.
getGlobalIndices(tx, txNo, node) ==
    LET r == node[tx.hash]
    IN  [ec |-> r.code,
         raised |-> IF r.kind \in {"system_error", "exception"} THEN r.kind ELSE "no",
         globalIdxs |-> IF r.kind = "ok" THEN GlobalIndicesOf(tx, txNo) ELSE <<>>]

(***************************************************************************)
(* preprocessOutputs, run by one thread from start to end.  `order` is the *)
(* iteration order of the unordered map of the scanner's result.           *)
(***************************************************************************)
EmptyInfo == [globalIdxs |-> <<>>, outputs |-> <<>>]

\* One build of the loop of lines 580-594, as the claims look at it.
BuildRecord(tx, spendKey, r) ==
    [hash |-> tx.hash, account |-> spendKey, ec |-> r.ec, dropped |-> r.dropped,
     transfers |-> r.transfers]

RECURSIVE BuildAll(_, _, _, _, _, _, _)
\* The loop of lines 580-594 over the matched keys `todo`, a sequence; acc is
\* [outputs, seen, assertOk, builds] so far.
BuildAll(blockInfo, tx, found, todo, globalIdxs, subscribed, acc) ==
    IF todo = <<>> THEN [acc EXCEPT !.ec = NoError]
    ELSE IF Head(todo) \notin subscribed
    THEN BuildAll(blockInfo, tx, found, Tail(todo), globalIdxs, subscribed, acc)
    ELSE LET k == Head(todo)
             Step(r) == [ec |-> r.ec,
                         outputs |-> Append(acc.outputs, <<k, r.transfers>>),
                         seen |-> r.seen,
                         assertOk |-> acc.assertOk /\ r.assertOk,
                         builds |-> Append(acc.builds, BuildRecord(tx, k, r))]
             Rest(next) ==
                 IF next.ec # NoError THEN next
                 ELSE BuildAll(blockInfo, tx, found, Tail(todo), globalIdxs, subscribed,
                               next)
         IN  Rest(Step(createTransfers(AccountKeys(k), blockInfo, tx, found[k],
                                       globalIdxs, acc.seen)))

preprocessOutputs(blockInfo, tx, txNo, spendKeys, subscribed, seen, node, order) ==
    LET start == [ec |-> NoError, outputs |-> <<>>, seen |-> seen, assertOk |-> TRUE,
                  builds |-> <<>>]
        Built(lookup, b) ==
            [ec |-> b.ec, raised |-> "no",
             info |-> [globalIdxs |-> lookup.globalIdxs, outputs |-> b.outputs],
             seen |-> b.seen, assertOk |-> b.assertOk, builds |-> b.builds]
        LookedUp(found, lookup) ==
            IF lookup.ec # NoError
            THEN [ec |-> lookup.ec, raised |-> lookup.raised, info |-> EmptyInfo,
                  seen |-> seen, assertOk |-> TRUE, builds |-> <<>>]
            ELSE Built(lookup, BuildAll(blockInfo, tx, found,
                                        SeqOfSet(DOMAIN found, order),
                                        lookup.globalIdxs, subscribed, start))
        Found(found) ==
            IF DOMAIN found = {}
            THEN [ec |-> NoError, raised |-> "no", info |-> EmptyInfo, seen |-> seen,
                  assertOk |-> TRUE, builds |-> <<>>]
            ELSE LookedUp(found,
                          IF blockInfo.height # WALLET_UNCONFIRMED_TRANSACTION_HEIGHT
                          THEN getGlobalIndices(tx, txNo, node)
                          ELSE [ec |-> NoError, raised |-> "no", globalIdxs |-> <<>>])
    IN  Found(findMyOutputs(tx, ViewSecret, spendKeys))

\* info.outputs.find(spendKey): the transfers recorded under the key, empty
\* when there are none.
RECURSIVE OutputsOf(_, _)
OutputsOf(outputs, spendKey) ==
    IF outputs = <<>> THEN <<>>
    ELSE IF Head(outputs)[1] = spendKey THEN Head(outputs)[2]
    ELSE OutputsOf(Tail(outputs), spendKey)

(***************************************************************************)
(* The subscription and its container (TransfersSubscription), as far as   *)
(* the consumer uses them.  A container maps the hashes of the             *)
(* transactions it holds to their block height.                            *)
(***************************************************************************)
Put(f, k, v) == [x \in DOMAIN f \cup {k} |-> IF x = k THEN v ELSE f[x]]
Drop(f, ks) == [x \in DOMAIN f \ ks |-> f[x]]
EmptyContainer == [x \in {} |-> 0]

NewSubscription(viewSecretKey, syncStart) ==
    [viewSecretKey |-> viewSecretKey, syncStart |-> syncStart,
     container |-> EmptyContainer]

\* addTransaction records the transaction when it brings transfers, and tells
\* whether it recorded it.
SubAddTransaction(container, blockInfo, tx, transfers) ==
    [added |-> transfers # <<>>,
     container |-> IF transfers # <<>> THEN Put(container, tx.hash, blockInfo.height)
                   ELSE container]

SubMarkTransactionConfirmed(container, blockInfo, txHash) ==
    Put(container, txHash, blockInfo.height)

SubDeleteUnconfirmedTransaction(container, txHash) ==
    IF txHash \in DOMAIN container
       /\ container[txHash] = WALLET_UNCONFIRMED_TRANSACTION_HEIGHT
    THEN Drop(container, {txHash}) ELSE container

\* A detach removes the transactions confirmed at the height or above it.
SubOnBlockchainDetach(container, height) ==
    Drop(container, {h \in DOMAIN container :
                        /\ container[h] # WALLET_UNCONFIRMED_TRANSACTION_HEIGHT
                        /\ container[h] >= height})

(***************************************************************************)
(* Events: the calls the consumer makes on its subscriptions and the       *)
(* notifications it sends to its observers, in order.                      *)
(***************************************************************************)
NoEvent == [op |-> "", sub |-> "", hash |-> "", height |-> 0, txIndex |-> 0,
            transfers |-> <<>>, globalIdxs |-> <<>>, ec |-> NoError, containers |-> {}]

EvAddTransaction(sub, blockInfo, tx, transfers) ==
    [NoEvent EXCEPT !.op = "addTransaction", !.sub = sub, !.hash = tx.hash,
                    !.height = blockInfo.height, !.txIndex = blockInfo.transactionIndex,
                    !.transfers = transfers]
EvMarkTransactionConfirmed(sub, blockInfo, tx, globalIdxs) ==
    [NoEvent EXCEPT !.op = "markTransactionConfirmed", !.sub = sub, !.hash = tx.hash,
                    !.height = blockInfo.height, !.txIndex = blockInfo.transactionIndex,
                    !.globalIdxs = globalIdxs]
EvTransactionUpdated(tx, containers) ==
    [NoEvent EXCEPT !.op = "onTransactionUpdated", !.hash = tx.hash,
                    !.containers = containers]
EvError(sub, ec, height) ==
    [NoEvent EXCEPT !.op = "onError", !.sub = sub, !.ec = ec, !.height = height]
EvAdvanceHeight(sub, height) ==
    [NoEvent EXCEPT !.op = "advanceHeight", !.sub = sub, !.height = height]
EvBlocksAdded == [NoEvent EXCEPT !.op = "onBlocksAdded"]
EvDetach(sub, height) ==
    [NoEvent EXCEPT !.op = "onBlockchainDetach", !.sub = sub, !.height = height]
EvDelete(op, sub, txHash) == [NoEvent EXCEPT !.op = op, !.sub = sub, !.hash = txHash]

\* The iteration order of m_subscriptions.
SubscriptionOrder == <<"A", "B", "C">>

(***************************************************************************)
(* processOutputs and processTransaction: the per-transaction apply.       *)
(***************************************************************************)
\* processOutputs with addTransaction in the place of markTransactionConfirmed.
processOutputs_AddOnConfirm(blockInfo, subKey, sub, tx, transfers, globalIdxs) ==
    IF tx.hash \in DOMAIN sub.container
    THEN IF sub.container[tx.hash] = WALLET_UNCONFIRMED_TRANSACTION_HEIGHT
            /\ blockInfo.height # WALLET_UNCONFIRMED_TRANSACTION_HEIGHT
         THEN [contains |-> TRUE, updated |-> TRUE, assertOk |-> TRUE,
               container |-> Put(sub.container, tx.hash, blockInfo.height),
               events |-> <<EvAddTransaction(subKey, blockInfo, tx, transfers)>>]
         ELSE [contains |-> TRUE, updated |-> FALSE,
               assertOk |-> sub.container[tx.hash] = blockInfo.height,
               container |-> sub.container, events |-> <<>>]
    ELSE LET r == SubAddTransaction(sub.container, blockInfo, tx, transfers)
         IN  [contains |-> r.added, updated |-> r.added, assertOk |-> TRUE,
              container |-> r.container,
              events |-> <<EvAddTransaction(subKey, blockInfo, tx, transfers)>>]

\* processOutputs with addTransaction for every transaction but the one that
\* goes from the pool to the chain.
processOutputs_ReAddsKnown(blockInfo, subKey, sub, tx, transfers, globalIdxs) ==
    IF /\ tx.hash \in DOMAIN sub.container
       /\ sub.container[tx.hash] = WALLET_UNCONFIRMED_TRANSACTION_HEIGHT
       /\ blockInfo.height # WALLET_UNCONFIRMED_TRANSACTION_HEIGHT
    THEN [contains |-> TRUE, updated |-> TRUE, assertOk |-> TRUE,
          container |-> SubMarkTransactionConfirmed(sub.container, blockInfo, tx.hash),
          events |-> <<EvMarkTransactionConfirmed(subKey, blockInfo, tx, globalIdxs)>>]
    ELSE LET r == SubAddTransaction(sub.container, blockInfo, tx, transfers)
         IN  [contains |-> r.added, updated |-> r.added, assertOk |-> TRUE,
              container |-> r.container,
              events |-> <<EvAddTransaction(subKey, blockInfo, tx, transfers)>>]

processOutputs(blockInfo, subKey, sub, tx, transfers, globalIdxs) ==
    LET contains == tx.hash \in DOMAIN sub.container
    IN  IF contains
        THEN IF sub.container[tx.hash] = WALLET_UNCONFIRMED_TRANSACTION_HEIGHT
                /\ blockInfo.height # WALLET_UNCONFIRMED_TRANSACTION_HEIGHT
             THEN [contains |-> TRUE, updated |-> TRUE, assertOk |-> TRUE,
                   container |-> SubMarkTransactionConfirmed(sub.container, blockInfo,
                                                             tx.hash),
                   events |-> <<EvMarkTransactionConfirmed(subKey, blockInfo, tx,
                                                           globalIdxs)>>]
             ELSE [contains |-> TRUE, updated |-> FALSE,
                   assertOk |-> sub.container[tx.hash] = blockInfo.height,
                   container |-> sub.container, events |-> <<>>]
        ELSE LET r == SubAddTransaction(sub.container, blockInfo, tx, transfers)
             IN  [contains |-> r.added, updated |-> r.added, assertOk |-> TRUE,
                  container |-> r.container,
                  events |-> <<EvAddTransaction(subKey, blockInfo, tx, transfers)>>]

RECURSIVE ApplyToSubscriptions(_, _, _, _, _)
\* The loop of lines 622-639 over the subscriptions `todo`, a sequence; acc is
\* [subs, events, assertOk, updated, containers] so far.
ApplyToSubscriptions(blockInfo, tx, info, todo, acc) ==
    IF todo = <<>> THEN acc
    ELSE LET k == Head(todo)
             r == processOutputs(blockInfo, k, acc.subs[k], tx,
                                 OutputsOf(info.outputs, k), info.globalIdxs)
         IN  ApplyToSubscriptions(blockInfo, tx, info, Tail(todo),
                 [subs |-> [acc.subs EXCEPT ![k].container = r.container],
                  events |-> acc.events \o r.events,
                  assertOk |-> acc.assertOk /\ r.assertOk,
                  updated |-> acc.updated \/ r.updated,
                  containers |-> IF r.contains THEN acc.containers \cup {k}
                                 ELSE acc.containers])

\* processTransaction(blockInfo, tx, info) of line 614.
processTransaction(blockInfo, tx, info, subs) ==
    LET r == ApplyToSubscriptions(blockInfo, tx, info,
                                  SeqOfSet(DOMAIN subs, SubscriptionOrder),
                                  [subs |-> subs, events |-> <<>>, assertOk |-> TRUE,
                                   updated |-> FALSE, containers |-> {}])
    IN  [subs |-> r.subs, assertOk |-> r.assertOk,
         events |-> IF r.updated
                    THEN Append(r.events, EvTransactionUpdated(tx, r.containers))
                    ELSE r.events]

(***************************************************************************)
(* The transactions, blocks and node behaviours the model draws from.      *)
(***************************************************************************)
AllHashes == <<"t1", "t2", "t3", "t4", "t5", "t6", "t7", "t8">>
Hashes == Range(AllHashes)
TxNo(h) == CHOOSE n \in 1..Len(AllHashes) : AllHashes[n] = h

JunkKey == <<<<"junk", "junk">>, 0, "X">>

\* t1 pays A.  t2 is another transaction that carries t1's output key.  t3 pays
\* A and B.  t4 pays nobody.  t5 carries t1's output key and pays B.  t6 has no
\* transaction public key.  t7 pays A twice.  t8 carries the key of t7's second
\* output.
TxOf(h) ==
    CASE h = "t1" -> MkTx("t1", "R1", <<KeyOut(StealthKey("R1", 0, "A"))>>)
      [] h = "t2" -> MkTx("t2", "R1", <<KeyOut(StealthKey("R1", 0, "A"))>>)
      [] h = "t3" -> MkTx("t3", "R2", <<KeyOut(StealthKey("R2", 0, "A")),
                                        KeyOut(StealthKey("R2", 1, "B"))>>)
      [] h = "t4" -> MkTx("t4", "R3", <<KeyOut(JunkKey)>>)
      [] h = "t5" -> MkTx("t5", "R1", <<KeyOut(StealthKey("R1", 0, "A")),
                                        KeyOut(StealthKey("R1", 1, "B"))>>)
      [] h = "t6" -> MkTx("t6", NULL_PUBLIC_KEY, <<KeyOut(JunkKey)>>)
      [] h = "t7" -> MkTx("t7", "R4", <<KeyOut(StealthKey("R4", 0, "A")),
                                        KeyOut(StealthKey("R4", 1, "A"))>>)
      [] h = "t8" -> MkTx("t8", "R4", <<KeyOut(JunkKey),
                                        KeyOut(StealthKey("R4", 1, "A"))>>)

\* A CompleteBlock: whether its block is initialized, its timestamp and its
\* transactions.
Block(initialized, timestamp, txs) ==
    [initialized |-> initialized, timestamp |-> timestamp, transactions |-> txs]

(***************************************************************************)
(* State.                                                                  *)
(***************************************************************************)
VARIABLES
    m_subscriptions,    \* spend key -> [syncStart, container]
    m_spendKeys,        \* the watched spend keys
    m_syncStart,        \* [height, timestamp]
    m_poolTxs,          \* the known pool transaction hashes
    seen,               \* the process-wide registry [hashes, keys]
    mapOrder,           \* the iteration order of the scanner's unordered map
    assertFailed,       \* an assert of the source has failed
    phase,              \* "idle", or the stage of the running onNewBlocks
    call,               \* the running onNewBlocks: its arguments, its worker count, the
                        \* node it talks to and the subscriptions it started with
    inputQueue,         \* the items of the BlockingQueue
    closed,             \* the BlockingQueue is closed
    stopProcessing,     \* the atomic stop flag
    producer,           \* the pushing thread [pc, i, j]
    worker,             \* the processing threads, w -> its position and locals
    preprocessedTransactions,
    processingError,    \* the error the joins kept
    events,             \* the calls and notifications of the last operation
    result,             \* what the last operation returned
    calls,              \* operations started so far
    builds,             \* the createTransfers calls of the last operation
    emitted,            \* <<tx hash, output key>> of every Key transfer ever built
    marked              \* the markTransactionConfirmed calls made on the living
                        \* subscriptions: [sub, hash, height, call, undone]

consumerVars == <<m_subscriptions, m_spendKeys, m_syncStart, m_poolTxs>>
pipeVars == <<call, inputQueue, closed, stopProcessing, producer, worker,
              preprocessedTransactions, processingError>>
ghostVars == <<builds, emitted, marked>>
vars == <<m_subscriptions, m_spendKeys, m_syncStart, m_poolTxs, seen, mapOrder,
          assertFailed, phase, call, inputQueue, closed, stopProcessing, producer,
          worker, preprocessedTransactions, processingError, events, result, calls,
          builds, emitted, marked>>

(***************************************************************************)
(* updateSyncStart: the component-wise minimum over the subscriptions.     *)
(***************************************************************************)
RECURSIVE MinStart(_, _, _)
MinStart(subs, todo, start) ==
    IF todo = <<>> THEN start
    ELSE LET subStart == subs[Head(todo)].syncStart
         IN  MinStart(subs, Tail(todo),
                      [height |-> Min(start.height, subStart.height),
                       timestamp |-> Min(start.timestamp, subStart.timestamp)])

updateSyncStart(subs) ==
    MinStart(subs, SeqOfSet(DOMAIN subs, SubscriptionOrder),
             [height |-> UINT64_MAX, timestamp |-> UINT64_MAX])

(***************************************************************************)
(* The state after construction.                                           *)
(***************************************************************************)
NoCall == [blocks |-> <<>>, startHeight |-> 0, count |-> 0, workers |-> 0,
           node |-> <<>>, subs |-> <<>>]
NoItem == [blockInfo |-> [height |-> 0, timestamp |-> 0, transactionIndex |-> 0],
           tx |-> ""]
IdleProducer == [pc |-> "done", i |-> 0, j |-> 1]
NewWorker == [pc |-> "check", item |-> NoItem, found |-> <<>>, todo |-> <<>>,
              globalIdxs |-> <<>>, outputs |-> <<>>, ec |-> NoError, raised |-> "no"]
NoResult == [op |-> "", ok |-> TRUE, ec |-> NoError]

PipeIdle ==
    /\ inputQueue = <<>>
    /\ closed = FALSE
    /\ stopProcessing = FALSE
    /\ producer = IdleProducer
    /\ worker = <<>>
    /\ preprocessedTransactions = <<>>
    /\ processingError = NoError

MapOrders == {<<"A", "B", "C">>, <<"C", "B", "A">>}

Constructed ==
    /\ m_subscriptions = <<>>
    /\ m_spendKeys = {}
    /\ m_syncStart = updateSyncStart(<<>>)
    /\ m_poolTxs = {}
    /\ seen = EmptySeen
    /\ assertFailed = FALSE
    /\ phase = "idle"
    /\ call = NoCall
    /\ PipeIdle
    /\ events = <<>>
    /\ result = NoResult
    /\ calls = 0
    /\ builds = <<>>
    /\ emitted = {}
    /\ marked = {}

Init ==
    /\ Constructed
    /\ mapOrder \in MapOrders

\* An operation other than onNewBlocks finds no locals of a finished call.
ResetPipe ==
    /\ call' = NoCall
    /\ inputQueue' = <<>>
    /\ closed' = FALSE
    /\ stopProcessing' = FALSE
    /\ producer' = IdleProducer
    /\ worker' = <<>>
    /\ preprocessedTransactions' = <<>>
    /\ processingError' = NoError

(***************************************************************************)
(* addSubscription and removeSubscription.                                 *)
(***************************************************************************)
Starts == [height : 0..MaxStart, timestamp : 0..MaxStart]

removeSubscription_NoUpdate(k) ==
    /\ phase = "idle"
    /\ m_subscriptions' = Drop(m_subscriptions, {k})
    /\ m_spendKeys' = m_spendKeys \ {k}
    /\ UNCHANGED m_syncStart
    /\ result' = [op |-> "removeSubscription", ok |-> DOMAIN m_subscriptions' = {},
                  ec |-> NoError]
    /\ events' = <<>>
    /\ builds' = <<>>
    /\ marked' = {m \in marked : m.sub # k}
    /\ ResetPipe
    /\ UNCHANGED <<m_poolTxs, seen, mapOrder, assertFailed, phase, calls, emitted>>

\* A variant without the view secret test of lines 133-135.
addSubscription_NoSecretCheck(k, viewSecretKey, syncStart) ==
    /\ phase = "idle"
    /\ events' = <<>>
    /\ builds' = <<>>
    /\ result' = [op |-> "addSubscription", ok |-> TRUE, ec |-> NoError]
    /\ IF k \in DOMAIN m_subscriptions
       THEN UNCHANGED consumerVars
       ELSE LET subs == Put(m_subscriptions, k,
                            NewSubscription(viewSecretKey, syncStart))
            IN  /\ m_subscriptions' = subs
                /\ m_spendKeys' = m_spendKeys \cup {k}
                /\ m_syncStart' =
                     IF Cardinality(DOMAIN subs) = 1 THEN syncStart
                     ELSE [height |-> Min(m_syncStart.height, syncStart.height),
                           timestamp |-> Min(m_syncStart.timestamp,
                                             syncStart.timestamp)]
                /\ UNCHANGED m_poolTxs
    /\ ResetPipe
    /\ UNCHANGED <<seen, mapOrder, assertFailed, phase, calls, emitted, marked>>

addSubscription(k, viewSecretKey, syncStart) ==
    /\ phase = "idle"
    /\ events' = <<>>
    /\ builds' = <<>>
    /\ IF viewSecretKey # ViewSecret
       THEN /\ result' = [op |-> "addSubscription", ok |-> FALSE,
                          ec |-> "view secret key mismatch"]
            /\ UNCHANGED consumerVars
       ELSE /\ result' = [op |-> "addSubscription", ok |-> TRUE, ec |-> NoError]
            /\ IF k \in DOMAIN m_subscriptions
               THEN UNCHANGED consumerVars
               ELSE LET subs == Put(m_subscriptions, k,
                                    NewSubscription(viewSecretKey, syncStart))
                    IN  /\ m_subscriptions' = subs
                        /\ m_spendKeys' = m_spendKeys \cup {k}
                        /\ m_syncStart' =
                             IF Cardinality(DOMAIN subs) = 1 THEN syncStart
                             ELSE [height |-> Min(m_syncStart.height, syncStart.height),
                                   timestamp |-> Min(m_syncStart.timestamp,
                                                     syncStart.timestamp)]
                        /\ UNCHANGED m_poolTxs
    /\ ResetPipe
    /\ UNCHANGED <<seen, mapOrder, assertFailed, phase, calls, emitted, marked>>

removeSubscription(k) ==
    /\ phase = "idle"
    /\ m_subscriptions' = Drop(m_subscriptions, {k})
    /\ m_spendKeys' = m_spendKeys \ {k}
    /\ m_syncStart' = updateSyncStart(m_subscriptions')
    /\ result' = [op |-> "removeSubscription", ok |-> DOMAIN m_subscriptions' = {},
                  ec |-> NoError]
    /\ events' = <<>>
    /\ builds' = <<>>
    /\ marked' = {m \in marked : m.sub # k}
    /\ ResetPipe
    /\ UNCHANGED <<m_poolTxs, seen, mapOrder, assertFailed, phase, calls, emitted>>

(***************************************************************************)
(* onNewBlocks.  The call starts the pushing thread and the processing     *)
(* threads; each step below is one step of one thread.                     *)
(***************************************************************************)
Workers == 1..call.workers
Capacity == call.workers * 2

\* std::thread::hardware_concurrency(), which may report 0.
WorkerCount(hardwareConcurrency) ==
    IF hardwareConcurrency = 0 THEN DEFAULT_WORKERS ELSE hardwareConcurrency

startOnNewBlocks(blocks, startHeight, hardwareConcurrency, node) ==
    /\ phase = "idle"
    /\ calls < MaxCalls
    /\ calls' = calls + 1
    /\ phase' = "running"
    /\ call' = [blocks |-> blocks, startHeight |-> startHeight, count |-> Len(blocks),
                workers |-> WorkerCount(hardwareConcurrency), node |-> node,
                subs |-> m_subscriptions]
    /\ inputQueue' = <<>>
    /\ closed' = FALSE
    /\ stopProcessing' = FALSE
    /\ producer' = [pc |-> "loop", i |-> 0, j |-> 1]
    /\ worker' = [w \in 1..WorkerCount(hardwareConcurrency) |-> NewWorker]
    /\ preprocessedTransactions' = <<>>
    /\ processingError' = NoError
    /\ events' = <<>>
    /\ builds' = <<>>
    /\ result' = NoResult
    /\ UNCHANGED <<consumerVars, seen, mapOrder, assertFailed, emitted, marked>>

RECURSIVE FirstPushable(_, _)
\* The first position from j of a transaction whose public key is not null.
FirstPushable(txs, j) ==
    IF j > Len(txs) THEN j
    ELSE IF TxOf(txs[j]).pubKey = NULL_PUBLIC_KEY THEN FirstPushable(txs, j + 1)
    ELSE j

\* A variant without the filter by the sync start timestamp.
SkipsBlock_NoTimestampFilter(block, syncStart) == ~block.initialized

\* The block the pushing thread is at is skipped: not initialized, or older
\* than the sync start.
SkipsBlock(block, syncStart) ==
    \/ ~block.initialized
    \/ (syncStart.timestamp # 0 /\ block.timestamp < syncStart.timestamp)

\* The pushing thread at the head of its loop over the blocks: it leaves the
\* loop and closes the queue, or moves on to the block's transactions.
ProducerLoop ==
    /\ phase \in {"running", "joined"}
    /\ producer.pc = "loop"
    /\ IF producer.i < call.count /\ ~stopProcessing
       THEN LET block == call.blocks[producer.i + 1]
                j == FirstPushable(block.transactions, 1)
            IN  /\ producer' = IF SkipsBlock(block, m_syncStart)
                                  \/ j > Len(block.transactions)
                               THEN [pc |-> "loop", i |-> producer.i + 1, j |-> 1]
                               ELSE [pc |-> "push", i |-> producer.i, j |-> j]
                /\ UNCHANGED closed
       ELSE /\ closed' = TRUE
            /\ producer' = IdleProducer
    /\ UNCHANGED <<consumerVars, seen, mapOrder, assertFailed, phase, call, inputQueue,
                   stopProcessing, worker, preprocessedTransactions, processingError,
                   events, result, calls, ghostVars>>

\* inputQueue.push(item): blocks while the queue is full.
ProducerPush ==
    /\ phase \in {"running", "joined"}
    /\ producer.pc = "push"
    /\ Len(inputQueue) < Capacity
    /\ LET block == call.blocks[producer.i + 1]
           item == [blockInfo |-> [height |-> call.startHeight + producer.i,
                                   timestamp |-> block.timestamp,
                                   transactionIndex |-> producer.j - 1],
                    tx |-> block.transactions[producer.j]]
           j == FirstPushable(block.transactions, producer.j + 1)
       IN  /\ inputQueue' = Append(inputQueue, item)
           /\ producer' = IF j > Len(block.transactions)
                          THEN [pc |-> "loop", i |-> producer.i + 1, j |-> 1]
                          ELSE [pc |-> "push", i |-> producer.i, j |-> j]
    /\ UNCHANGED <<consumerVars, seen, mapOrder, assertFailed, phase, call, closed,
                   stopProcessing, worker, preprocessedTransactions, processingError,
                   events, result, calls, ghostVars>>

\* while (!stopProcessing ...
WorkerCheck(w) ==
    /\ phase = "running"
    /\ worker[w].pc = "check"
    /\ worker' = [worker EXCEPT ![w].pc = IF stopProcessing THEN "done" ELSE "pop"]
    /\ UNCHANGED <<consumerVars, seen, mapOrder, assertFailed, phase, call, inputQueue,
                   closed, stopProcessing, producer, preprocessedTransactions,
                   processingError, events, result, calls, ghostVars>>

\* ... && inputQueue.pop(item)): blocks while the queue is empty and open.  The
\* scan of the popped transaction follows.
WorkerPop(w) ==
    /\ phase = "running"
    /\ worker[w].pc = "pop"
    /\ inputQueue # <<>> \/ closed
    /\ IF inputQueue # <<>>
       THEN LET item == Head(inputQueue)
                found == findMyOutputs(TxOf(item.tx), ViewSecret, m_spendKeys)
            IN  /\ inputQueue' = Tail(inputQueue)
                /\ worker' = [worker EXCEPT ![w] =
                      [NewWorker EXCEPT !.item = item, !.found = found,
                                        !.pc = IF DOMAIN found = {} THEN "push_back"
                                               ELSE "lookup"]]
       ELSE /\ worker' = [worker EXCEPT ![w].pc = "done"]
            /\ UNCHANGED inputQueue
    /\ UNCHANGED <<consumerVars, seen, mapOrder, assertFailed, phase, call, closed,
                   stopProcessing, producer, preprocessedTransactions, processingError,
                   events, result, calls, ghostVars>>

\* getGlobalIndices of preprocessOutputs; an error code sets the stop flag and
\* ends the thread, a raise ends the thread.
WorkerLookup(w) ==
    /\ phase = "running"
    /\ worker[w].pc = "lookup"
    /\ LET me == worker[w]
           tx == TxOf(me.item.tx)
           r == getGlobalIndices(tx, TxNo(tx.hash), call.node)
           todo == SeqOfSet(DOMAIN me.found \cap DOMAIN m_subscriptions, mapOrder)
       IN  IF r.raised # "no"
           THEN /\ worker' = [worker EXCEPT ![w] =
                      [NewWorker EXCEPT !.pc = "done", !.ec = r.ec, !.raised = r.raised]]
                /\ UNCHANGED stopProcessing
           ELSE IF r.ec # NoError
           THEN /\ worker' = [worker EXCEPT ![w] =
                      [NewWorker EXCEPT !.pc = "done", !.ec = r.ec]]
                /\ stopProcessing' = TRUE
           ELSE /\ worker' = [worker EXCEPT ![w].globalIdxs = r.globalIdxs,
                                            ![w].todo = todo,
                                            ![w].pc = IF todo = <<>> THEN "push_back"
                                                      ELSE "build"]
                /\ UNCHANGED stopProcessing
    /\ UNCHANGED <<consumerVars, seen, mapOrder, assertFailed, phase, call, inputQueue,
                   closed, producer, preprocessedTransactions, processingError, events,
                   result, calls, ghostVars>>

\* The Key transfers of a build, as <<tx hash, output key>>.
EmittedBy(txHash, transfers) ==
    {<<txHash, transfers[n].outputKey[1]>> :
        n \in {x \in 1..Len(transfers) : transfers[x].type = "Key"}}

\* One createTransfers call of the loop of preprocessOutputs, under seen_mutex.
WorkerBuild(w) ==
    /\ phase = "running"
    /\ worker[w].pc = "build"
    /\ LET me == worker[w]
           tx == TxOf(me.item.tx)
           k == Head(me.todo)
           r == createTransfers(AccountKeys(k), me.item.blockInfo, tx, me.found[k],
                                me.globalIdxs, seen)
       IN  /\ seen' = r.seen
           /\ assertFailed' = (assertFailed \/ ~r.assertOk)
           /\ builds' = Append(builds, BuildRecord(tx, k, r))
           /\ emitted' = emitted \cup EmittedBy(tx.hash, r.transfers)
           /\ IF r.ec # NoError
              THEN /\ worker' = [worker EXCEPT ![w] =
                         [NewWorker EXCEPT !.pc = "done", !.ec = r.ec]]
                   /\ stopProcessing' = TRUE
              ELSE /\ worker' = [worker EXCEPT
                         ![w].outputs = Append(me.outputs, <<k, r.transfers>>),
                         ![w].todo = Tail(me.todo),
                         ![w].pc = IF Tail(me.todo) = <<>> THEN "push_back" ELSE "build"]
                   /\ UNCHANGED stopProcessing
    /\ UNCHANGED <<consumerVars, mapOrder, phase, call, inputQueue, closed, producer,
                   preprocessedTransactions, processingError, events, result, calls,
                   marked>>

\* preprocessedTransactions.push_back(output), under its mutex.
WorkerPushBack(w) ==
    /\ phase = "running"
    /\ worker[w].pc = "push_back"
    /\ preprocessedTransactions' =
          Append(preprocessedTransactions,
                 [blockInfo |-> worker[w].item.blockInfo, tx |-> worker[w].item.tx,
                  globalIdxs |-> worker[w].globalIdxs, outputs |-> worker[w].outputs])
    /\ worker' = [worker EXCEPT ![w] = NewWorker]
    /\ UNCHANGED <<consumerVars, seen, mapOrder, assertFailed, phase, call, inputQueue,
                   closed, stopProcessing, producer, processingError, events, result,
                   calls, ghostVars>>

\* The joins without a look at what the threads returned or raised.
JoinWorkers_DropsErrors(wk, w, err) == NoError

RECURSIVE JoinWorkers(_, _, _)
\* The joins of lines 309-321, in the order the threads were started.
JoinWorkers(wk, w, err) ==
    IF w > Len(wk) THEN err
    ELSE JoinWorkers(wk, w + 1,
             IF wk[w].raised = "system_error" THEN wk[w].ec
             ELSE IF wk[w].raised = "exception" THEN OperationCanceled
             ELSE IF err = NoError /\ wk[w].ec # NoError THEN wk[w].ec
             ELSE err)

\* The comparison of the sort: by block height, then by index in the block.
Before(a, b) ==
    \/ a.blockInfo.height < b.blockInfo.height
    \/ /\ a.blockInfo.height = b.blockInfo.height
       /\ a.blockInfo.transactionIndex < b.blockInfo.transactionIndex

RECURSIVE InsertSorted(_, _)
InsertSorted(x, sorted) ==
    IF sorted = <<>> THEN <<x>>
    ELSE IF Before(x, Head(sorted)) THEN <<x>> \o sorted
    ELSE <<Head(sorted)>> \o InsertSorted(x, Tail(sorted))

RECURSIVE SortedTransactions(_)
SortedTransactions(txs) ==
    IF txs = <<>> THEN <<>>
    ELSE InsertSorted(Head(txs), SortedTransactions(Tail(txs)))

SortedTransactions_Unsorted(txs) == txs

sortPreprocessed(txs) == SortedTransactions(txs)

RECURSIVE ApplyAll(_, _)
\* The loop of lines 336-338; acc is [subs, events, assertOk] so far.
ApplyAll(txs, acc) ==
    IF txs = <<>> THEN acc
    ELSE LET t == Head(txs)
             r == processTransaction(t.blockInfo, TxOf(t.tx),
                                     [globalIdxs |-> t.globalIdxs, outputs |-> t.outputs],
                                     acc.subs)
         IN  ApplyAll(Tail(txs), [subs |-> r.subs, events |-> acc.events \o r.events,
                                  assertOk |-> acc.assertOk /\ r.assertOk])

\* forEachSubscription: the call ev, made on every subscription in turn.
ForEachSubscription(subs, ev) ==
    LET order == SeqOfSet(DOMAIN subs, SubscriptionOrder)
    IN  [n \in 1..Len(order) |-> [ev EXCEPT !.sub = order[n]]]

\* The markTransactionConfirmed calls among the events of operation callNo.
MarkedBy(evs, callNo) ==
    {[sub |-> evs[n].sub, hash |-> evs[n].hash, height |-> evs[n].height,
      call |-> callNo, undone |-> FALSE] :
        n \in {x \in 1..Len(evs) : evs[x].op = "markTransactionConfirmed"}}

\* A variant that notifies onBlocksAdded only after the apply loop.
BatchEvents_BlocksAddedLate(appliedEvents, advances) ==
    appliedEvents \o <<EvBlocksAdded>> \o advances

\* A variant that skips advanceHeight when the apply called nothing.
BatchEvents_AdvanceOnlyAfterApply(appliedEvents, advances) ==
    <<EvBlocksAdded>> \o appliedEvents
    \o (IF appliedEvents = <<>> THEN <<>> ELSE advances)

\* What a batch without error calls, in order: onBlocksAdded (line 325), the
\* apply loop over the sorted transactions (lines 336-338), advanceHeight on
\* every subscription (lines 347-350).
BatchEvents(appliedEvents, advances) ==
    <<EvBlocksAdded>> \o appliedEvents \o advances

\* The main thread once every processing thread has ended: the joins, then
\* the commit of the batch or the error fan-out.
Aggregate ==
    /\ phase = "running"
    /\ \A w \in Workers : worker[w].pc = "done"
    /\ LET err == JoinWorkers(worker, 1, NoError)
           applied == ApplyAll(sortPreprocessed(preprocessedTransactions),
                               [subs |-> m_subscriptions, events |-> <<>>,
                                assertOk |-> TRUE])
           newHeight == call.startHeight + call.count - 1
           Advance == EvAdvanceHeight(NoSpendKey, newHeight)
           Error == EvError(NoSpendKey, err, call.startHeight)
       IN  /\ processingError' = err
           /\ IF err = NoError
              THEN /\ events' = BatchEvents(applied.events,
                                             ForEachSubscription(m_subscriptions,
                                                                 Advance))
                   /\ m_subscriptions' = applied.subs
                   /\ assertFailed' = (assertFailed \/ ~applied.assertOk)
                   /\ marked' = marked \cup MarkedBy(applied.events, calls)
              ELSE /\ events' = ForEachSubscription(m_subscriptions, Error)
                   /\ UNCHANGED <<m_subscriptions, assertFailed, marked>>
    /\ phase' = "joined"
    /\ UNCHANGED <<m_spendKeys, m_syncStart, m_poolTxs, seen, mapOrder, call, inputQueue,
                   closed, stopProcessing, producer, worker, preprocessedTransactions,
                   result, calls, builds, emitted>>

\* onNewBlocks returns once the future of the pushing thread is destroyed,
\* which waits for that thread to end.
Return ==
    /\ phase = "joined"
    /\ producer.pc = "done"
    /\ phase' = "idle"
    /\ result' = [op |-> "onNewBlocks", ok |-> processingError = NoError,
                  ec |-> processingError]
    /\ UNCHANGED <<consumerVars, seen, mapOrder, assertFailed, pipeVars, events, calls,
                   ghostVars>>

\* The steps of the threads of a running onNewBlocks.
PipelineNext ==
    \/ ProducerLoop
    \/ ProducerPush
    \/ \E w \in Workers : WorkerCheck(w)
    \/ \E w \in Workers : WorkerPop(w)
    \/ \E w \in Workers : WorkerLookup(w)
    \/ \E w \in Workers : WorkerBuild(w)
    \/ \E w \in Workers : WorkerPushBack(w)
    \/ Aggregate
    \/ Return

(***************************************************************************)
(* The operations that run on the caller's thread from start to end.       *)
(***************************************************************************)
\* No node is asked about a pool transaction.
NoNode == [h \in Hashes |-> NodeOk]

\* processTransaction(blockInfo, tx) of line 599: preprocess, then apply.  st is
\* [subs, seen, events, builds, assertOk, ec] so far.
processTransaction2(blockInfo, tx, spendKeys, order, st) ==
    LET Applied(p, a) ==
            [subs |-> a.subs, seen |-> p.seen, events |-> st.events \o a.events,
             builds |-> st.builds \o p.builds,
             assertOk |-> st.assertOk /\ p.assertOk /\ a.assertOk, ec |-> NoError]
        Preprocessed(p) ==
            IF p.ec # NoError
            THEN [st EXCEPT !.seen = p.seen, !.builds = st.builds \o p.builds,
                            !.assertOk = st.assertOk /\ p.assertOk, !.ec = p.ec]
            ELSE Applied(p, processTransaction(blockInfo, tx, p.info, st.subs))
    IN  Preprocessed(preprocessOutputs(blockInfo, tx, TxNo(tx.hash), spendKeys,
                                       DOMAIN st.subs, st.seen, NoNode, order))

\* The Key transfers of a sequence of builds.
EmittedByAll(bs) ==
    UNION {EmittedBy(bs[n].hash, bs[n].transfers) : n \in 1..Len(bs)}

\* What an operation that ran to the state st leaves behind.
Commit(op, st) ==
    /\ m_subscriptions' = st.subs
    /\ seen' = st.seen
    /\ events' = st.events
    /\ builds' = st.builds
    /\ assertFailed' = (assertFailed \/ ~st.assertOk)
    /\ emitted' = emitted \cup EmittedByAll(st.builds)
    /\ marked' = marked \cup MarkedBy(st.events, calls + 1)
    /\ result' = [op |-> op, ok |-> st.ec = NoError, ec |-> st.ec]
    /\ calls' = calls + 1
    /\ ResetPipe

Started ==
    [subs |-> m_subscriptions, seen |-> seen, events |-> <<>>, builds |-> <<>>,
     assertOk |-> TRUE, ec |-> NoError]

addUnconfirmedTransaction(h) ==
    /\ phase = "idle"
    /\ calls < MaxCalls
    /\ LET unconfirmedBlockInfo == [height |-> WALLET_UNCONFIRMED_TRANSACTION_HEIGHT,
                                    timestamp |-> 0, transactionIndex |-> 0]
       IN  \E st \in {processTransaction2(unconfirmedBlockInfo, TxOf(h), m_spendKeys,
                                            mapOrder, Started)} :
              Commit("addUnconfirmedTransaction", st)
    /\ UNCHANGED <<m_spendKeys, m_syncStart, m_poolTxs, mapOrder, phase>>

\* The events of the deletion of one transaction.
DeleteEvents(subs, h) ==
    LET Delete == EvDelete("deleteUnconfirmedTransaction", NoSpendKey, h)
    IN  <<EvDelete("onTransactionDeleteBegin", "", h)>>
        \o ForEachSubscription(subs, Delete)
        \o <<EvDelete("onTransactionDeleteEnd", "", h)>>

DeleteFromAll(subs, h) ==
    [k \in DOMAIN subs |->
        [subs[k] EXCEPT !.container = SubDeleteUnconfirmedTransaction(@, h)]]

\* A variant that erases the hash from m_poolTxs too.
removeUnconfirmedTransaction_ErasesPool(h) ==
    /\ phase = "idle"
    /\ calls < MaxCalls
    /\ Commit("removeUnconfirmedTransaction",
              [Started EXCEPT !.subs = DeleteFromAll(m_subscriptions, h),
                              !.events = DeleteEvents(m_subscriptions, h)])
    /\ m_poolTxs' = m_poolTxs \ {h}
    /\ UNCHANGED <<m_spendKeys, m_syncStart, mapOrder, phase>>

removeUnconfirmedTransaction(h) ==
    /\ phase = "idle"
    /\ calls < MaxCalls
    /\ Commit("removeUnconfirmedTransaction",
              [Started EXCEPT !.subs = DeleteFromAll(m_subscriptions, h),
                              !.events = DeleteEvents(m_subscriptions, h)])
    /\ UNCHANGED <<m_spendKeys, m_syncStart, m_poolTxs, mapOrder, phase>>

RECURSIVE PoolAdd(_, _, _, _, _)
\* The loop of lines 364-375 over the added transactions; st carries pool, the
\* pool transaction hashes, too.  It ends at the first error with the error
\* fan-out.
PoolAdd(added, unconfirmedBlockInfo, spendKeys, order, st) ==
    IF added = <<>> THEN st
    ELSE LET tx == TxOf(Head(added))
             pool == st.pool \cup {tx.hash}
             Step(r) ==
                 LET Error == EvError(NoSpendKey, r.ec, WALLET_UNCONFIRMED_TRANSACTION_HEIGHT)
                 IN  [subs |-> r.subs, seen |-> r.seen, builds |-> r.builds,
                      assertOk |-> r.assertOk, ec |-> r.ec, pool |-> pool,
                      events |-> IF r.ec # NoError
                                 THEN r.events \o ForEachSubscription(r.subs, Error)
                                 ELSE r.events]
             Rest(next) ==
                 IF next.ec # NoError THEN next
                 ELSE PoolAdd(Tail(added), unconfirmedBlockInfo, spendKeys, order, next)
         IN  Rest(Step(processTransaction2(unconfirmedBlockInfo, tx, spendKeys, order,
                                           [x \in DOMAIN st \ {"pool"} |-> st[x]])))

\* A variant whose loop over the deleted hashes leaves m_poolTxs alone.
PoolDelete_KeepsPool(deleted, st) ==
    [st EXCEPT !.subs = [k \in DOMAIN st.subs |->
                            [st.subs[k] EXCEPT
                                !.container = [h \in DOMAIN @ \ Range(deleted) |-> @[h]]]]]

RECURSIVE PoolDelete(_, _)
\* The loop of lines 377-394 over the deleted hashes.
PoolDelete(deleted, st) ==
    IF deleted = <<>> THEN st
    ELSE PoolDelete(Tail(deleted),
             [st EXCEPT !.pool = @ \ {Head(deleted)},
                        !.subs = DeleteFromAll(@, Head(deleted)),
                        !.events = @ \o DeleteEvents(st.subs, Head(deleted))])

\* unconfirmedBlockInfo.transactionIndex is never assigned: the transfers carry
\* whatever the stack held, here any of TransactionIndexes.
TransactionIndexes == {0, 1}

onPoolUpdated(addedTransactions, deletedTransactions) ==
    /\ phase = "idle"
    /\ calls < MaxCalls
    /\ \E garbage \in TransactionIndexes :
          LET unconfirmedBlockInfo ==
                  [height |-> WALLET_UNCONFIRMED_TRANSACTION_HEIGHT, timestamp |-> 0,
                   transactionIndex |-> garbage]
              start == [subs |-> m_subscriptions, seen |-> seen, events |-> <<>>,
                        builds |-> <<>>, assertOk |-> TRUE, ec |-> NoError,
                        pool |-> m_poolTxs]
          IN  \E a \in {PoolAdd(addedTransactions, unconfirmedBlockInfo, m_spendKeys,
                                mapOrder, start)} :
              \E st \in {IF a.ec # NoError THEN a
                         ELSE PoolDelete(deletedTransactions, a)} :
                 /\ m_poolTxs' = st.pool
                 /\ Commit("onPoolUpdated", [x \in DOMAIN st \ {"pool"} |-> st[x]])
    /\ UNCHANGED <<m_spendKeys, m_syncStart, mapOrder, phase>>

onBlockchainDetach(height) ==
    /\ phase = "idle"
    /\ calls < MaxCalls
    /\ LET Detach == EvDetach(NoSpendKey, height)
       IN  /\ m_subscriptions' =
                [k \in DOMAIN m_subscriptions |->
                    [m_subscriptions[k] EXCEPT
                        !.container = SubOnBlockchainDetach(@, height)]]
           /\ events' = <<EvDetach("", height)>>
                        \o ForEachSubscription(m_subscriptions, Detach)
    /\ marked' = {IF m.height >= height THEN [m EXCEPT !.undone = TRUE] ELSE m :
                     m \in marked}
    /\ result' = [op |-> "onBlockchainDetach", ok |-> TRUE, ec |-> NoError]
    /\ builds' = <<>>
    /\ calls' = calls + 1
    /\ ResetPipe
    /\ UNCHANGED <<m_spendKeys, m_syncStart, m_poolTxs, seen, mapOrder, assertFailed,
                   phase, emitted>>

(***************************************************************************)
(* One onNewBlocks call on a consumer that has just been given its         *)
(* subscriptions A and B.                                                  *)
(***************************************************************************)
BatchStartHeight == 10

\* One block of four transactions; four blocks, of which the second is not
\* initialized and the third is older than the others; and one block of t8
\* and t7.
Batches ==
    {<<Block(TRUE, 5, <<"t1", "t2", "t3", "t4">>)>>,
     <<Block(TRUE, 5, <<"t3", "t1">>), Block(FALSE, 5, <<"t4">>),
       Block(TRUE, 1, <<"t5">>), Block(TRUE, 6, <<"t6", "t2">>)>>,
     <<Block(TRUE, 5, <<"t8", "t7">>)>>,
     <<Block(TRUE, 1, <<"t4">>)>>}

\* The node answers every lookup but those of t1 and t3, which it may fail.
NodeBehaviours ==
    {[h \in Hashes |-> IF h = "t1" THEN a ELSE IF h = "t3" THEN b ELSE NodeOk] :
        a \in {NodeOk, NodeError("E1"), NodeException},
        b \in {NodeOk, NodeError("E2"), NodeSystemError("E2")}}

BatchStarts == {[height |-> 0, timestamp |-> 0], [height |-> 0, timestamp |-> MaxStart]}

InitBatch ==
    /\ mapOrder \in MapOrders
    /\ \E sA \in BatchStarts :
          m_subscriptions = [k \in {"A", "B"} |->
                                NewSubscription(ViewSecret,
                                                IF k = "A" THEN sA
                                                ELSE [height |-> 0, timestamp |-> MaxStart])]
    /\ m_spendKeys = {"A", "B"}
    /\ m_syncStart = updateSyncStart(m_subscriptions)
    /\ m_poolTxs = {}
    /\ seen = EmptySeen
    /\ assertFailed = FALSE
    /\ phase = "running"
    /\ \E blocks \in Batches, hc \in 0..MaxWorkers, node \in NodeBehaviours :
          /\ call = [blocks |-> blocks, startHeight |-> BatchStartHeight,
                     count |-> Len(blocks), workers |-> WorkerCount(hc), node |-> node,
                     subs |-> m_subscriptions]
          /\ worker = [w \in 1..WorkerCount(hc) |-> NewWorker]
    /\ inputQueue = <<>>
    /\ closed = FALSE
    /\ stopProcessing = FALSE
    /\ producer = [pc |-> "loop", i |-> 0, j |-> 1]
    /\ preprocessedTransactions = <<>>
    /\ processingError = NoError
    /\ events = <<>>
    /\ result = NoResult
    /\ calls = 1
    /\ builds = <<>>
    /\ emitted = {}
    /\ marked = {}

SpecBatch == InitBatch /\ [][PipelineNext]_vars

(***************************************************************************)
(* The same call run by one processing thread that takes the transactions  *)
(* in the order the pushing thread enumerates them.                        *)
(***************************************************************************)
RECURSIVE EnumerateBlock(_, _, _, _)
EnumerateBlock(block, height, j, acc) ==
    IF j > Len(block.transactions) THEN acc
    ELSE EnumerateBlock(block, height, j + 1,
             IF TxOf(block.transactions[j]).pubKey = NULL_PUBLIC_KEY THEN acc
             ELSE Append(acc, [blockInfo |-> [height |-> height,
                                              timestamp |-> block.timestamp,
                                              transactionIndex |-> j - 1],
                               tx |-> block.transactions[j]]))

RECURSIVE Enumerate(_, _, _, _, _)
\* The items the pushing thread pushes when nothing stops it.
Enumerate(blocks, startHeight, syncStart, i, acc) ==
    IF i >= Len(blocks) THEN acc
    ELSE Enumerate(blocks, startHeight, syncStart, i + 1,
             IF SkipsBlock(blocks[i + 1], syncStart) THEN acc
             ELSE EnumerateBlock(blocks[i + 1], startHeight + i, 1, acc))

RECURSIVE PreprocessInOrder(_, _, _)
\* acc is [seen, done, ec]: the registry, the preprocessed transactions and
\* the first failure.
PreprocessInOrder(items, c, acc) ==
    IF items = <<>> \/ acc.ec # NoError THEN acc
    ELSE LET item == Head(items)
             r == preprocessOutputs(item.blockInfo, TxOf(item.tx), TxNo(item.tx),
                                    c.spendKeys, DOMAIN c.subs, acc.seen, c.node,
                                    c.order)
         IN  PreprocessInOrder(Tail(items), c,
                 [seen |-> r.seen, ec |-> r.ec,
                  done |-> IF r.ec # NoError THEN acc.done
                           ELSE Append(acc.done,
                                       [blockInfo |-> item.blockInfo, tx |-> item.tx,
                                        globalIdxs |-> r.info.globalIdxs,
                                        outputs |-> r.info.outputs])])

\* What the call does to its subscriptions and observers, and what it
\* returns, when run in order from registry seen0.
InOrderRun(c, seen0) ==
    LET items == Enumerate(c.blocks, c.startHeight, c.syncStart, 0, <<>>)
        pre == PreprocessInOrder(items, c, [seen |-> seen0, done |-> <<>>,
                                            ec |-> NoError])
        applied == ApplyAll(pre.done, [subs |-> c.subs, events |-> <<>>,
                                       assertOk |-> TRUE])
        Advance == EvAdvanceHeight(NoSpendKey, c.startHeight + Len(c.blocks) - 1)
        Error == EvError(NoSpendKey, pre.ec, c.startHeight)
    IN  [ok |-> pre.ec = NoError,
         events |-> IF pre.ec = NoError
                    THEN <<EvBlocksAdded>> \o applied.events
                         \o ForEachSubscription(c.subs, Advance)
                    ELSE ForEachSubscription(c.subs, Error)]

(***************************************************************************)
(* Claims about one onNewBlocks call.                                      *)
(***************************************************************************)
\* The call has joined its processing threads and committed or failed.
Settled == call # NoCall /\ phase \in {"joined", "idle"}
Returned == call # NoCall /\ phase = "idle"

\* The positions in the events of the calls the apply made on subscription k.
AppliedTo(k) ==
    {n \in 1..Len(events) :
        /\ events[n].sub = k
        /\ events[n].op \in {"addTransaction", "markTransactionConfirmed"}}

\* C1: within one successful onNewBlocks the calls the apply makes on a
\* subscription are strictly ascending in (height, transactionIndex), for every
\* interleaving of the pushing and the processing threads and every worker
\* count.
C1_ApplyOrderAscending ==
    Settled =>
       \A k \in DOMAIN m_subscriptions :
          \A a, b \in AppliedTo(k) :
             a < b =>
                \/ events[a].height < events[b].height
                \/ /\ events[a].height = events[b].height
                   /\ events[a].txIndex < events[b].txIndex

\* A successful call applied two transactions to A which its processing
\* threads had finished in the other order.
C1_Witness ==
    /\ Settled
    /\ processingError = NoError
    /\ Cardinality(AppliedTo("A")) >= 2
    /\ preprocessedTransactions # SortedTransactions(preprocessedTransactions)

\* The error codes of the processing threads that failed.
Failures ==
    {worker[w].ec : w \in {x \in DOMAIN worker : worker[x].pc = "done"
                                                 /\ worker[x].ec # NoError}}

ErrorFanOut(e) ==
    LET Error == EvError(NoSpendKey, e, call.startHeight)
    IN  ForEachSubscription(m_subscriptions, Error)

\* C2 as amended: when a preprocessing of the batch fails, every subscription
\* receives one onError(E', startHeight) for one error E' among the failed
\* preprocessings, nothing else is called or notified (no addTransaction, no
\* markTransactionConfirmed, no onBlocksAdded, no onTransactionUpdated, no
\* advanceHeight), and the call returns false.
C2_ErrorAbortsBatch ==
    (Settled /\ Failures # {}) =>
       /\ processingError \in Failures
       /\ events = ErrorFanOut(processingError)
       /\ \A k \in DOMAIN m_subscriptions : m_subscriptions[k].container = EmptyContainer
       /\ phase = "idle" =>
             result = [op |-> "onNewBlocks", ok |-> FALSE, ec |-> processingError]

\* The call returned false after one preprocessing failed and others had
\* succeeded.
C2_Witness ==
    /\ Returned
    /\ Failures # {}
    /\ preprocessedTransactions # <<>>
    /\ ~result.ok

\* C2 as stated: every error E a preprocessing of the batch failed with is
\* the one every subscription receives through onError.
C2_EveryErrorReported ==
    (Settled /\ Failures # {}) =>
       \A e \in Failures :
          /\ events = ErrorFanOut(e)
          /\ phase = "idle" => ~result.ok

\* C3: no thread of a call that has not returned is blocked for ever: as long
\* as the call has not returned, some thread can take a step.
C3_NoThreadBlockedForever ==
    phase # "idle" => ENABLED PipelineNext

\* The processing threads that failed, by returning an error code or by
\* raising.
FailedWorkers ==
    {w \in DOMAIN worker : worker[w].pc = "done" /\ worker[w].ec # NoError}

\* The failure of the failed thread that is joined first.
FirstFailure ==
    worker[CHOOSE w \in FailedWorkers : \A x \in FailedWorkers : w <= x].ec

\* C22: when several processing threads of a batch fail, by an error code or
\* by raising, the error every subscription gets through onError is the
\* failure of the thread joined first; the failure of a thread joined later
\* never replaces it.
C22_FirstFailureInJoinOrderKept ==
    (Settled /\ FailedWorkers # {}) =>
       /\ processingError = FirstFailure
       /\ events = ErrorFanOut(FirstFailure)

\* The arguments and the consumer state the running call started from.
CallInput ==
    [blocks |-> call.blocks, startHeight |-> call.startHeight, node |-> call.node,
     syncStart |-> m_syncStart, spendKeys |-> m_spendKeys, order |-> mapOrder,
     subs |-> call.subs]

\* C4: the call is deterministic: whatever the interleaving and the worker
\* count, it returns what the in-order run of the same input returns, with
\* the same events; stated here for a node that answers every lookup.
C4_SameAsInOrderRun ==
    (Returned /\ \A h \in Hashes : call.node[h] = NodeOk) =>
       LET ref == InOrderRun(CallInput, EmptySeen)
       IN  /\ result.ok = ref.ok
           /\ events = ref.events

\* The output keys of the Key outputs of transaction h that the scanner gives
\* to spend key k.
OwnedKeys(h, k) ==
    LET found == findMyOutputs(TxOf(h), ViewSecret, {k})
    IN  IF k \in DOMAIN found
        THEN {getOutput(TxOf(h), found[k][n]).keys[1] :
                 n \in {x \in 1..Len(found[k]) :
                           getOutputType(TxOf(h), found[k][x]) = "Key"}}
        ELSE {}

\* The output keys the Key transfers of event n carry.
KeysIn(n) ==
    {events[n].transfers[x].outputKey[1] :
        x \in {y \in 1..Len(events[n].transfers) : events[n].transfers[y].type = "Key"}}

\* C7: of two transactions of a batch that carry the same output key of A, the
\* earlier in (height, transactionIndex) order is the one credited to A with
\* the key and the later brings A no transfer with it, for every scheduling
\* of the processing threads.
C7_EarlierTransactionCredited ==
    (Settled /\ processingError = NoError) =>
       \A a, b \in AppliedTo("A") :
          (/\ a < b
           /\ events[a].op = "addTransaction"
           /\ events[b].op = "addTransaction"
           /\ events[a].hash # events[b].hash)
          => \A key \in OwnedKeys(events[a].hash, "A") \cap OwnedKeys(events[b].hash, "A") :
                /\ key \in KeysIn(a)
                /\ key \notin KeysIn(b)

\* The positions in the events of the notification or call op.
Positions(op) == {n \in 1..Len(events) : events[n].op = op}

\* The positions of the calls on subscriptions and of onTransactionUpdated.
BatchCalls ==
    {n \in 1..Len(events) :
        events[n].op \in {"addTransaction", "markTransactionConfirmed",
                          "onTransactionUpdated", "advanceHeight", "onError"}}

\* C11: a successful onNewBlocks emits onBlocksAdded exactly once, before the
\* first call on a subscription and the first onTransactionUpdated of the
\* batch, and nothing is emitted while a processing thread is not yet joined.
C11_BlocksAddedOnceFirst ==
    /\ (Settled /\ processingError = NoError) =>
          /\ Cardinality(Positions("onBlocksAdded")) = 1
          /\ \A b \in Positions("onBlocksAdded") : \A n \in BatchCalls : b < n
    /\ (call # NoCall /\ phase = "running") => events = <<>>

\* A successful call that applied a transaction to a subscription and sent
\* onTransactionUpdated.
C11_Witness ==
    /\ Returned
    /\ result.ok
    /\ Positions("addTransaction") # {}
    /\ Positions("onTransactionUpdated") # {}

\* Block i of the call (from 1) is older than the sync start.
Older(i) ==
    /\ m_syncStart.timestamp > 0
    /\ call.blocks[i].timestamp < m_syncStart.timestamp

HeightOf(i) == call.startHeight + i - 1

\* The items of the call that a thread holds or has preprocessed.
InFlight ==
    Range(inputQueue)
    \cup {worker[w].item : w \in {x \in DOMAIN worker : worker[x].item # NoItem}}
    \cup {[blockInfo |-> preprocessedTransactions[n].blockInfo,
           tx |-> preprocessedTransactions[n].tx] :
              n \in 1..Len(preprocessedTransactions)}

\* Transaction j of block i has been preprocessed and applied to every
\* subscription.
PreprocessedAndApplied(i, j) ==
    LET h == call.blocks[i].transactions[j]
    IN  /\ \E n \in 1..Len(preprocessedTransactions) :
              /\ preprocessedTransactions[n].tx = h
              /\ preprocessedTransactions[n].blockInfo =
                    [height |-> HeightOf(i), timestamp |-> call.blocks[i].timestamp,
                     transactionIndex |-> j - 1]
        /\ \A k \in DOMAIN m_subscriptions :
              \E n \in AppliedTo(k) : /\ events[n].hash = h
                                      /\ events[n].height = HeightOf(i)
                                      /\ events[n].txIndex = j - 1

\* C15: no transaction of a block older than a non-zero sync start timestamp
\* is pushed, preprocessed or applied; when the call meets no error, every
\* transaction with a public key of an initialized block that is not older is
\* preprocessed and applied to the subscriptions.
C15_TimestampFilter ==
    call # NoCall =>
       \A i \in 1..Len(call.blocks) :
          /\ Older(i) =>
                /\ \A item \in InFlight : item.blockInfo.height # HeightOf(i)
                /\ \A k \in DOMAIN m_subscriptions :
                      \A n \in AppliedTo(k) : events[n].height # HeightOf(i)
          /\ (/\ Settled
              /\ processingError = NoError
              /\ call.blocks[i].initialized
              /\ ~Older(i)) =>
                \A j \in 1..Len(call.blocks[i].transactions) :
                   TxOf(call.blocks[i].transactions[j]).pubKey # NULL_PUBLIC_KEY =>
                      PreprocessedAndApplied(i, j)

\* A successful call with a sync start timestamp above zero, one block older
\* than it and one not older whose transactions were applied.
C15_Witness ==
    /\ Returned
    /\ result.ok
    /\ \E i \in 1..Len(call.blocks) : Older(i) /\ call.blocks[i].initialized
    /\ \E i \in 1..Len(call.blocks) :
          /\ ~Older(i)
          /\ call.blocks[i].timestamp >= m_syncStart.timestamp
          /\ \E n \in AppliedTo("A") : events[n].height = HeightOf(i)

\* The positions of the advanceHeight calls on subscription k.
Advances(k) ==
    {n \in 1..Len(events) : events[n].op = "advanceHeight" /\ events[n].sub = k}

\* C16: a successful onNewBlocks(blocks, startHeight, count) calls
\* advanceHeight(startHeight + count - 1) exactly once on every subscription,
\* after every call of the apply and every onTransactionUpdated, whether or
\* not a transaction was pushed or matched.
C16_AdvanceHeightOnceLast ==
    (Settled /\ processingError = NoError) =>
       \A k \in DOMAIN m_subscriptions :
          /\ Cardinality(Advances(k)) = 1
          /\ \A a \in Advances(k) :
                /\ events[a].height = call.startHeight + call.count - 1
                /\ \A n \in 1..Len(events) :
                      events[n].op \in {"addTransaction", "markTransactionConfirmed",
                                        "onTransactionUpdated", "onBlocksAdded"}
                         => n < a

\* A successful call all of whose blocks were filtered out, so that nothing
\* was pushed or applied.
C16_Witness ==
    /\ Returned
    /\ result.ok
    /\ \A i \in 1..Len(call.blocks) : Older(i)
    /\ preprocessedTransactions = <<>>
    /\ \A k \in DOMAIN m_subscriptions : AppliedTo(k) = {}
    /\ Advances("A") # {}

(***************************************************************************)
(* The consumer under every operation, on the caller's thread one after    *)
(* the other.                                                              *)
(***************************************************************************)
ApiKeys == {"A", "B"}
ApiHashes == {"t1", "t5"}
ApiBatches ==
    {<<Block(TRUE, 5, <<"t1">>)>>, <<Block(TRUE, 5, <<"t5", "t1">>)>>}
ApiNodes ==
    {[h \in Hashes |-> IF h = "t1" THEN a ELSE NodeOk] : a \in {NodeOk, NodeError("E1")}}
ApiStarts == {[height |-> 0, timestamp |-> 0]}
\* The added and the deleted transactions of a pool update.
PoolUpdates == {<<<<>>, <<"t1">>>>, <<<<"t1">>, <<>>>>, <<<<"t5", "t1">>, <<"t1">>>>}
DetachHeights == {BatchStartHeight, BatchStartHeight + 1}

Next ==
    \/ \E k \in ApiKeys, v \in {ViewSecret, OtherViewSecret}, s \in ApiStarts :
          addSubscription(k, v, s)
    \/ \E k \in ApiKeys : removeSubscription(k)
    \/ \E blocks \in ApiBatches, node \in ApiNodes :
          startOnNewBlocks(blocks, BatchStartHeight, 1, node)
    \/ PipelineNext
    \/ \E update \in PoolUpdates : onPoolUpdated(update[1], update[2])
    \/ \E h \in ApiHashes : addUnconfirmedTransaction(h)
    \/ removeUnconfirmedTransaction("t1")
    \/ \E height \in DetachHeights : onBlockchainDetach(height)

Spec == Init /\ [][Next]_vars

\* C5: no two transfers the builder ever emitted for transactions of different
\* hashes carry the same output key.
C5_NoKeyInTwoTransactions ==
    \A a, b \in emitted : a[2] = b[2] => a[1] = b[1]

\* C6: a build that finds a duplicate output key in a transaction not yet seen
\* returns no error and leaves the account no transfers, wherever the
\* duplicate is among the account's outputs.
C6_DuplicateYieldsNoTransfers ==
    \A n \in 1..Len(builds) :
       builds[n].dropped => /\ builds[n].ec = NoError
                            /\ builds[n].transfers = <<>>

\* The subscriptions that held transaction h as unconfirmed when the call
\* started.
HeldUnconfirmed(h) ==
    {k \in DOMAIN call.subs :
        /\ h \in DOMAIN call.subs[k].container
        /\ call.subs[k].container[h] = WALLET_UNCONFIRMED_TRANSACTION_HEIGHT}

\* The transactions a successful call delivers, with their block info.
Delivered == Range(Enumerate(call.blocks, call.startHeight, m_syncStart, 0, <<>>))

EventsOf(k, h, op) ==
    {n \in 1..Len(events) : /\ events[n].op = op
                            /\ events[n].sub = k
                            /\ events[n].hash = h}

\* C9: when a subscription holds a transaction as unconfirmed and a
\* successful onNewBlocks delivers the transaction at height h, the
\* subscription gets exactly one markTransactionConfirmed with h, the hash
\* and the transaction's global indices, no addTransaction for it, and
\* onTransactionUpdated is sent for the hash.
C9_PoolToChain ==
    (Settled /\ processingError = NoError) =>
       \A item \in Delivered :
          \A k \in HeldUnconfirmed(item.tx) :
             /\ Cardinality(EventsOf(k, item.tx, "markTransactionConfirmed")) = 1
             /\ \A n \in EventsOf(k, item.tx, "markTransactionConfirmed") :
                   /\ events[n].height = item.blockInfo.height
                   /\ events[n].globalIdxs = GlobalIndicesOf(TxOf(item.tx), TxNo(item.tx))
             /\ EventsOf(k, item.tx, "addTransaction") = {}
             /\ EventsOf("", item.tx, "onTransactionUpdated") # {}

\* A call has returned success after it delivered a transaction that a
\* subscription held as unconfirmed.
C9_Witness ==
    /\ Returned
    /\ result.ok
    /\ \E item \in Delivered : HeldUnconfirmed(item.tx) # {}

\* The marks of earlier operations on the subscription and hash of event n.
EarlierMarks(n) ==
    {m \in marked : /\ m.sub = events[n].sub
                    /\ m.hash = events[n].hash
                    /\ m.call < calls}

C17_HeightAssertionHolds == ~assertFailed

\* The step is an operation that ran on the caller's thread from start to
\* end and called the builder; its first build is for the transaction hash h.
BuiltFirst(h) ==
    /\ phase = "idle"
    /\ phase' = "idle"
    /\ calls' = calls + 1
    /\ builds' # <<>>
    /\ builds'[1].hash = h

\* Before the step a key of transaction h owned by A is in public_keys_seen,
\* from another transaction, and no key of h owned by B is.
CollidesForAOnly(h) ==
    /\ {"A", "B"} \subseteq DOMAIN m_subscriptions
    /\ h \notin seen.hashes
    /\ OwnedKeys(h, "A") \cap seen.keys # {}
    /\ OwnedKeys(h, "B") # {}
    /\ OwnedKeys(h, "B") \cap seen.keys = {}

\* C19: when a transaction has outputs of A and of B, A's key is already in
\* public_keys_seen from another transaction and B's keys are not, A gets no
\* transfers from the transaction and B gets its transfers, in whatever order
\* the preprocessor builds the two accounts.
C19_CollisionIsPerAccount ==
    [][\A h \in ApiHashes :
          (BuiltFirst(h) /\ CollidesForAOnly(h)) =>
             \A n \in 1..Len(builds') :
                builds'[n].hash = h =>
                   /\ builds'[n].account = "A" => builds'[n].transfers = <<>>
                   /\ builds'[n].account = "B" => builds'[n].transfers # <<>>]_vars

\* The keys of the output a transfer was built for.
KeysOfTransfer(h, transfer) ==
    Range(getOutput(TxOf(h), transfer.outputInTransaction).keys)

\* C20: after a build that emitted transfers for a transaction, the hash of
\* the transaction is in transactions_hash_seen and the key of every emitted
\* Key transfer and every key of every emitted Multisignature transfer is in
\* public_keys_seen, for each account the transaction was built for.
C20_EmittedKeysRegistered ==
    \A n \in 1..Len(builds) :
       builds[n].transfers # <<>> =>
          /\ builds[n].hash \in seen.hashes
          /\ \A x \in 1..Len(builds[n].transfers) :
                KeysOfTransfer(builds[n].hash, builds[n].transfers[x]) \subseteq seen.keys

(***************************************************************************)
(* One onNewBlocks call while another thread calls addPublicKeysSeen.      *)
(***************************************************************************)
\* The (transaction hash, output key) pairs addPublicKeysSeen is called with:
\* the hash of t2 with the key t1 and t2 carry.
SeenInputs == {<<"t2", StealthKey("R1", 0, "A")>>}

\* TransfersConsumer::addPublicKeysSeen, under seen_mutex.
callAddPublicKeysSeen(transactionHash, outputKey) ==
    /\ seen' = addPublicKeysSeen(seen, transactionHash, outputKey)
    /\ UNCHANGED <<consumerVars, mapOrder, assertFailed, phase, pipeVars, events, result,
                   calls, ghostVars>>

SeenNext ==
    \/ PipelineNext
    \/ \E input \in SeenInputs : callAddPublicKeysSeen(input[1], input[2])

SpecSeen == InitBatch /\ [][SeenNext]_vars

\* The step made one createTransfers call, recorded last in builds.
Built == builds' # builds /\ builds' # <<>>

LastBuild == builds'[Len(builds')]

\* C21: a createTransfers call that ends in a duplicate-key drop or in
\* ArgumentOutOfDomain leaves transactions_hash_seen and public_keys_seen as
\* they were; the two sets only grow, and only by a createTransfers call that
\* ran to its end or by addPublicKeysSeen.
C21_RegistryGrowsBySuccessOnly ==
    [][/\ seen.hashes \subseteq seen'.hashes
       /\ seen.keys \subseteq seen'.keys
       /\ (Built /\ (LastBuild.dropped \/ LastBuild.ec = ArgumentOutOfDomain)) =>
             seen' = seen
       /\ seen' # seen =>
             \/ /\ Built
                /\ LastBuild.ec = NoError
                /\ ~LastBuild.dropped
                /\ seen'.hashes = seen.hashes \cup {LastBuild.hash}
             \/ /\ builds' = builds
                /\ \E input \in SeenInputs :
                      seen' = addPublicKeysSeen(seen, input[1], input[2])]_vars

\* A build was dropped after it had staged a key and emitted its transfer:
\* neither the key nor the hash is in the registry; addPublicKeysSeen has
\* been called too.
C21_Witness ==
    /\ "t2" \in seen.hashes
    /\ \E n \in 1..Len(builds) :
          /\ builds[n].dropped
          /\ builds[n].transfers # <<>>
          /\ builds[n].hash \notin seen.hashes
          /\ \E x \in 1..Len(builds[n].transfers) :
                ~(KeysOfTransfer(builds[n].hash, builds[n].transfers[x])
                     \subseteq seen.keys)

(***************************************************************************)
(* The consumer under every operation, initTransactionPool included.       *)
(***************************************************************************)
\* Container::getUnconfirmedTransactions: the hashes held as unconfirmed.
SubGetUnconfirmedTransactions(container) ==
    {h \in DOMAIN container : container[h] = WALLET_UNCONFIRMED_TRANSACTION_HEIGHT}

\* The sets of uncommitted transactions initTransactionPool is called with.
PoolInits == {{}, {"t1"}}

initTransactionPool(uncommitedTransactions) ==
    /\ phase = "idle"
    /\ m_poolTxs' =
          m_poolTxs
          \cup (UNION {SubGetUnconfirmedTransactions(m_subscriptions[k].container) :
                         k \in DOMAIN m_subscriptions}
                \ uncommitedTransactions)
    /\ result' = [op |-> "initTransactionPool", ok |-> TRUE, ec |-> NoError]
    /\ events' = <<>>
    /\ builds' = <<>>
    /\ ResetPipe
    /\ UNCHANGED <<m_subscriptions, m_spendKeys, m_syncStart, seen, mapOrder,
                   assertFailed, phase, calls, emitted, marked>>

PoolNext ==
    \/ Next
    \/ \E uncommitedTransactions \in PoolInits : initTransactionPool(uncommitedTransactions)

SpecPool == Init /\ [][PoolNext]_vars

\* C23: m_poolTxs is changed by onPoolUpdated and initTransactionPool only:
\* no step of any other operation (addUnconfirmedTransaction,
\* removeUnconfirmedTransaction, onNewBlocks and its pool-to-chain
\* confirmations, onBlockchainDetach, addSubscription, removeSubscription)
\* changes it.
C23_PoolChangedByPoolOperationsOnly ==
    [][m_poolTxs' # m_poolTxs =>
          \/ \E update \in PoolUpdates : onPoolUpdated(update[1], update[2])
          \/ \E uncommitedTransactions \in PoolInits :
                initTransactionPool(uncommitedTransactions)]_vars

\* A successful onNewBlocks confirmed a transaction held as unconfirmed whose
\* hash is still in m_poolTxs.
C23_Witness ==
    /\ Returned
    /\ result.ok
    /\ \E n \in Positions("markTransactionConfirmed") : events[n].hash \in m_poolTxs

\* The last operation was an onPoolUpdated that returned an error.
PoolUpdateFailed == result.op = "onPoolUpdated" /\ ~result.ok

\* The events are those of k added transactions at most, then one
\* onError(ec, UNCONFIRMED) for every subscription, and no deletion.
EndsWithErrorFanOut(evs, subs, ec) ==
    LET Error == EvError(NoSpendKey, ec, WALLET_UNCONFIRMED_TRANSACTION_HEIGHT)
        fanOut == ForEachSubscription(subs, Error)
        before == Len(evs) - Len(fanOut)
    IN  /\ before >= 0
        /\ SubSeq(evs, before + 1, Len(evs)) = fanOut
        /\ \A n \in 1..before :
              evs[n].op \in {"addTransaction", "markTransactionConfirmed",
                             "onTransactionUpdated"}

MaxOutputs == 3
ScanPubKey == "R1"

\* What an output of a transaction may be: a Key output whose key is derived
\* for any index and either account, a Multisignature output of two keys,
\* the first derived for any index and account A, or an output of another
\* type.
OutputChoices ==
    {KeyOut(StealthKey(ScanPubKey, j, s)) : j \in 0..(MaxOutputs - 1), s \in ApiKeys}
    \cup {MultisigOut(<<StealthKey(ScanPubKey, j, "A"), JunkKey>>) :
             j \in 0..(MaxOutputs - 1)}
    \cup {OtherOut}

ScanTransactions ==
    {MkTx("t1", ScanPubKey, outs) :
        outs \in UNION {[1..n -> OutputChoices] : n \in 1..MaxOutputs}}

InitScan ==
    /\ mapOrder \in MapOrders
    /\ m_subscriptions =
          [k \in ApiKeys |-> NewSubscription(ViewSecret, [height |-> 0, timestamp |-> 0])]
    /\ m_spendKeys = ApiKeys
    /\ m_syncStart = updateSyncStart(m_subscriptions)
    /\ m_poolTxs = {}
    /\ seen = EmptySeen
    /\ assertFailed = FALSE
    /\ phase = "scan"
    /\ \E tx \in ScanTransactions : call = [tx |-> tx]
    /\ PipeIdle
    /\ events = <<>>
    /\ result = NoResult
    /\ calls = 0
    /\ builds = <<>>
    /\ emitted = {}
    /\ marked = {}

\* findMyOutputs on the transaction (line 566).
ScanOutputs ==
    /\ phase = "scan"
    /\ phase' = "scanned"
    /\ result' = [op |-> "findMyOutputs", ok |-> TRUE, ec |-> NoError,
                  found |-> findMyOutputs(call.tx, ViewSecret, m_spendKeys)]
    /\ UNCHANGED <<consumerVars, seen, mapOrder, assertFailed, pipeVars, events, calls,
                   ghostVars>>

\* The rest of preprocessOutputs: createTransfers for every matched key.
BuildScanned ==
    /\ phase = "scanned"
    /\ phase' = "built"
    /\ LET unconfirmedBlockInfo == [height |-> WALLET_UNCONFIRMED_TRANSACTION_HEIGHT,
                                    timestamp |-> 0, transactionIndex |-> 0]
       IN  \E p \in {preprocessOutputs(unconfirmedBlockInfo, call.tx, 0, m_spendKeys,
                                        DOMAIN m_subscriptions, seen, NoNode,
                                        mapOrder)} :
              /\ seen' = p.seen
              /\ builds' = p.builds
              /\ assertFailed' = ~p.assertOk
              /\ emitted' = EmittedByAll(p.builds)
    /\ UNCHANGED <<consumerVars, mapOrder, pipeVars, events, result, calls, marked>>

ScanNext == ScanOutputs \/ BuildScanned

SpecScan == InitScan /\ [][ScanNext]_vars

\* Output i of the scanned transaction is a Key output whose key is the
\* stealth key of spend key k for index j.
KeyOutputFor(i, j, k) ==
    /\ getOutputType(call.tx, i) = "Key"
    /\ getOutput(call.tx, i).keys[1] = StealthKey(call.tx.pubKey, j, k)

\* The scanner lists output i under spend key k.
Listed(i, k) ==
    /\ k \in DOMAIN result.found
    /\ i \in Range(result.found[k])

OutputIndexes == 0..(getOutputCount(call.tx) - 1)

\* C14: scanner completeness: every Key output at a position i whose key is
\* the stealth key of a watched spend key k derived for index i is listed
\* under k with index i, whatever the other outputs of the transaction are.
C14_ScannerComplete ==
    phase \in {"scanned", "built"} =>
       \A i \in OutputIndexes, k \in m_spendKeys :
          KeyOutputFor(i, i, k) => Listed(i, k)

\* C18: for every Key output the scanner lists under an account, the key the
\* builder recomputes for the account and the output index is the output's
\* key, and the builder's assertion does not fail.
C18_BuilderRecomputesKey ==
    phase = "built" =>
       /\ ~assertFailed
       /\ \A i \in OutputIndexes, k \in m_spendKeys :
             (Listed(i, k) /\ getOutputType(call.tx, i) = "Key") =>
                generate_key_image_helper(AccountKeys(k), call.tx.pubKey, i)
                   = getOutput(call.tx, i).keys[1]

\* The consumer under subscription changes alone.
SubsNext ==
    \/ \E k \in SpendKeys, v \in {ViewSecret, OtherViewSecret}, s \in Starts :
          addSubscription(k, v, s)
    \/ \E k \in SpendKeys : removeSubscription(k)

SpecSubs == Init /\ [][SubsNext]_vars

(***************************************************************************)
(* C8: getSyncStart() is the component-wise minimum of the sync starts of  *)
(* the subscriptions held, and (max, max) when none is held.               *)
(***************************************************************************)
HeldStarts == {m_subscriptions[k].syncStart : k \in DOMAIN m_subscriptions}

C8_SyncStartIsMinimum ==
    /\ HeldStarts = {} =>
          m_syncStart = [height |-> UINT64_MAX, timestamp |-> UINT64_MAX]
    /\ HeldStarts # {} =>
          /\ \E s \in HeldStarts : m_syncStart.height = s.height
          /\ \A s \in HeldStarts : m_syncStart.height <= s.height
          /\ \E s \in HeldStarts : m_syncStart.timestamp = s.timestamp
          /\ \A s \in HeldStarts : m_syncStart.timestamp <= s.timestamp

\* Two subscriptions are held, the minimum is the start of neither, and the
\* last operation removed a third one.
C8_Witness ==
    /\ Cardinality(DOMAIN m_subscriptions) = 2
    /\ result.op = "removeSubscription"
    /\ \A k \in DOMAIN m_subscriptions : m_subscriptions[k].syncStart # m_syncStart

\* The last operation was an addSubscription that threw.
AddSubscriptionFailed == result.op = "addSubscription" /\ ~result.ok

\* C12: an addSubscription with a view secret other than the consumer's
\* throws and leaves the subscriptions, the watched spend keys and the sync
\* start as they were; every subscription held has the consumer's view secret.
C12_MismatchedSecretRejected ==
    /\ [](\A k \in DOMAIN m_subscriptions :
             m_subscriptions[k].viewSecretKey = ViewSecret)
    /\ [][AddSubscriptionFailed' =>
             UNCHANGED <<m_subscriptions, m_spendKeys, m_syncStart>>]_vars

\* An addSubscription threw while two subscriptions were held.
C12_Witness ==
    /\ AddSubscriptionFailed
    /\ Cardinality(DOMAIN m_subscriptions) = 2
    /\ m_spendKeys = DOMAIN m_subscriptions

=============================================================================
